---- MODULE Spec2Model ----
(***************************************************************************)
(* A model of map-sketch: the service worker (src/sw.js) with its versioned *)
(* cache stores and three fetch strategies, and the edge proxy             *)
(* (src/map-api-proxy/src/index.js) with its request classification and    *)
(* response rewriting.                                                     *)
(***************************************************************************)
EXTENDS Integers, Sequences, FiniteSets, TLC

(***************************************************************************)
(* Bounds of the model.                                                    *)
(***************************************************************************)
\* fetch events dispatched to the current worker (strategy scenarios)
MaxFetch == 2
\* fetch events dispatched, to either worker, while this one supersedes the
\* other (lifecycle scenarios)
MaxLifecycleFetch == 1

(***************************************************************************)
(* sw.js: constants.                                                       *)
(***************************************************************************)
VERSION == "v1.2.0"
\* the VERSION of the worker this one supersedes (same file, earlier release)
OLD_VERSION == "v1.1.0"
Versions == {VERSION, OLD_VERSION}

APP_CACHE(v) == <<"mapsketch-app-", v>>
RUNTIME_CACHE(v) == <<"mapsketch-runtime-", v>>
UNRELATED_CACHE == <<"unrelated-cache", "">>

StoreNames ==
    {APP_CACHE(v) : v \in Versions} \cup {RUNTIME_CACHE(v) : v \in Versions}
        \cup {UNRELATED_CACHE}

\* the two names the running worker treats as current
CurrentNames == {APP_CACHE(VERSION), RUNTIME_CACHE(VERSION)}

(***************************************************************************)
(* Requests.  A URL is its host and its pathname, each a sequence of       *)
(* tokens, so that the handler's tests (=== '/', endsWith, the two         *)
(* regular expressions anchored with $) are computed on the URL's shape.   *)
(***************************************************************************)
AppHost == <<"app.example">>
TileHost == <<"a.", "tile.openstreetmap.org">>

RootUrl == [host |-> AppHost, path |-> <<"/">>]
IndexUrl == [host |-> AppHost, path |-> <<"/", "index", ".html">>]
ManifestUrl == [host |-> AppHost, path |-> <<"/", "manifest", ".webmanifest">>]
AssetUrl == [host |-> AppHost, path |-> <<"/", "app", ".js">>]
TilePngUrl == [host |-> TileHost, path |-> <<"/", "5", "/", "10", ".png">>]
TileBareUrl == [host |-> TileHost, path |-> <<"/", "5", "/", "10">>]

Requests == {RootUrl, IndexUrl, ManifestUrl, AssetUrl, TilePngUrl, TileBareUrl}
\* the requests the pages issue through the current worker
FetchRequests == {RootUrl, IndexUrl, AssetUrl, TilePngUrl, TileBareUrl}
\* the requests the pages issue through the superseded worker
OldRequests == {RootUrl, AssetUrl, TileBareUrl}

SHELL == <<IndexUrl, ManifestUrl>>

EndsWith(s, suffix) ==
    /\ Len(s) >= Len(suffix)
    /\ SubSeq(s, Len(s) - Len(suffix) + 1, Len(s)) = suffix

\* url.pathname === '/' || url.pathname.endsWith('/index.html')
IsShell(url) ==
    url.path = <<"/">> \/ EndsWith(url.path, <<"/", "index", ".html">>)

StaticExts == {".css", ".js", ".png", ".jpg", ".svg", ".webp", ".ico", ".json"}

\* /\.(css|js|png|jpg|svg|webp|ico|json)$/.test(url.pathname)
IsStatic(url) == url.path[Len(url.path)] \in StaticExts

\* /tile\.openstreetmap\.org$/.test(url.host)
IsTileHost(url) == EndsWith(url.host, <<"tile.openstreetmap.org">>)

\* the branch of the fetch handler that takes the request: the tests run in
\* the order of the code and the first one that holds returns
Strategy(url) ==
    IF IsShell(url) THEN "shell"
    ELSE IF IsStatic(url) THEN "static"
    ELSE IF IsTileHost(url) THEN "tile"
    ELSE "none"

(***************************************************************************)
(* Responses.  What the network may answer: two distinct ok responses and  *)
(* one that is not ok.                                                     *)
(***************************************************************************)
OkResponses == {"a", "b"}
NetResponses == OkResponses \cup {"e404"}
\* what the network may answer while the worker installs
PrecacheResponses == {"a", "e404"}
Ok(r) == r \in OkResponses

NoEntry == "none"
NoHandle == [name |-> UNRELATED_CACHE, gen |-> -1]

\* what the promise handed to respondWith has settled with
Pending == [kind |-> "pending", r |-> "-"]
Resolved(r) == [kind |-> "response", r |-> r]
ErrorResponse == [kind |-> "error_response", r |-> "-"]
Rejected == [kind |-> "rejected", r |-> "-"]
Undefined == [kind |-> "undefined", r |-> "-"]
NotCalled == [kind |-> "not_intercepted", r |-> "-"]

VARIABLES
    cacheKeys,      \* CacheStorage: the names of the stores that exist
    content,        \* the entries of each named store (request -> response)
    gen,            \* how many times each name has been deleted
    installPc,      \* the install handler's position
    activatePc,     \* the activate handler's position
    keys,           \* activate: the result of caches.keys()
    toDelete,       \* activate: the caches.delete calls still in flight
    hs,             \* the fetch handlers, by event
    curLeft,        \* fetch events still to be dispatched to this worker
    oldLeft,        \* fetch events still to be dispatched to the superseded one
    lateOpened      \* names opened by the superseded worker's handlers
                    \* since the activate handler read caches.keys()

swVars == <<cacheKeys, content, gen, installPc, activatePc, keys, toDelete,
            hs, curLeft, oldLeft, lateOpened>>

\* the edge proxy: one invocation of fetch
VARIABLES
    pxMethod,       \* request.method
    pxParams,       \* url.searchParams
    pxReply,        \* what the upstream will answer, if it is asked
    pxPc,           \* the position of fetch
    pxRoute,        \* how the request was classified
    pxUpstream,     \* the URL fetch was called with
    pxCalls,        \* how many times fetch was called
    pxRegion,       \* the region handleLidarRequest took its configuration for
    pxResp          \* the Response returned

pxVars == <<pxMethod, pxParams, pxReply, pxPc, pxRoute, pxUpstream, pxCalls, pxRegion,
            pxResp>>

NHandlers == IF MaxFetch > MaxLifecycleFetch THEN MaxFetch ELSE MaxLifecycleFetch
Handlers == 1..NHandlers

EmptyStore == [q \in Requests |-> NoEntry]

IdleHandler ==
    [ver |-> VERSION, req |-> RootUrl, pc |-> "idle", c |-> NoHandle,
     hit |-> NoEntry, net |-> "none", out |-> Pending, put |-> "none"]

InitStores ==
    /\ content = [n \in StoreNames |-> EmptyStore]
    /\ gen = [n \in StoreNames |-> 0]
    /\ installPc = "start"
    /\ activatePc = "waiting"
    /\ keys = {}
    /\ toDelete = {}
    /\ hs = [i \in Handlers |-> IdleHandler]
    /\ lateOpened = {}

\* an upgrade over the stores the earlier release and the page have left;
\* only this worker takes fetch events
InitSW ==
    /\ cacheKeys = StoreNames \ CurrentNames
    /\ curLeft = MaxFetch
    /\ oldLeft = 0
    /\ InitStores

\* an upgrade over any set of stores, while the superseded worker still
\* takes fetch events
InitLifecycle ==
    /\ cacheKeys \in SUBSET StoreNames
    /\ curLeft \in 0..MaxLifecycleFetch
    /\ oldLeft = MaxLifecycleFetch - curLeft
    /\ InitStores

(***************************************************************************)
(* CacheStorage and Cache operations.                                      *)
(***************************************************************************)
\* caches.open(name): the store is created when it does not exist
OpenKeys(name) == cacheKeys \cup {name}

\* the handle a caches.open(name) returns: it stays bound to the store it
\* opened, also after the name is deleted
Handle(name) == [name |-> name, gen |-> gen[name]]

\* a handle whose store is still the one CacheStorage holds under its name
Live(c) == c.name \in cacheKeys /\ gen[c.name] = c.gen

\* cache.match(request)
Match(c, req) == IF Live(c) THEN content[c.name][req] ELSE NoEntry

\* Promise.race(ps): the first promise of ps, in order, that has settled;
\* a promise still pending is "pending"
RECURSIVE PromiseRace(_)
PromiseRace(ps) ==
    IF ps = <<>> THEN "pending"
    ELSE IF Head(ps) # "pending" THEN Head(ps)
    ELSE PromiseRace(Tail(ps))

(***************************************************************************)
(* install handler (sw.js:7-13).                                           *)
(***************************************************************************)
\* const c = await caches.open(APP_CACHE)
InstallOpen ==
    /\ installPc = "start"
    /\ cacheKeys' = OpenKeys(APP_CACHE(VERSION))
    /\ installPc' = "addAll"
    /\ UNCHANGED <<content, gen, activatePc, keys, toDelete, hs, curLeft, oldLeft, lateOpened, pxVars>>

\* await c.addAll(SHELL): every request is fetched; the entries are written
\* only when every response is ok, otherwise addAll rejects and so does the
\* promise given to waitUntil (the install fails); then self.skipWaiting()
InstallAddAll ==
    /\ installPc = "addAll"
    /\ \/ \E rs \in [1..Len(SHELL) -> PrecacheResponses \cup {"failed"}] :
            IF \A k \in 1..Len(SHELL) : rs[k] # "failed" /\ Ok(rs[k])
            THEN /\ content' =
                      [content EXCEPT ![APP_CACHE(VERSION)] =
                          [q \in Requests |->
                              IF \E k \in 1..Len(SHELL) : SHELL[k] = q
                              THEN rs[CHOOSE k \in 1..Len(SHELL) : SHELL[k] = q]
                              ELSE @[q]]]
                 /\ installPc' = "installed"
            ELSE /\ installPc' = "failed"
                 /\ UNCHANGED content
    /\ UNCHANGED <<cacheKeys, gen, activatePc, keys, toDelete, hs, curLeft, oldLeft, lateOpened, pxVars>>

(***************************************************************************)
(* activate handler (sw.js:15-21).                                         *)
(***************************************************************************)
\* the stores the activate handler deletes, of those caches.keys() listed
ToDeleteAppOnly(ks) == {k \in ks : k # APP_CACHE(VERSION)}
ToDeleteOf(ks) ==
    {k \in ks : ~(k = APP_CACHE(VERSION) \/ k = RUNTIME_CACHE(VERSION))}

\* const keys = await caches.keys(); keys.map(...) calls caches.delete(k) for
\* every other name
ActivateKeys ==
    /\ installPc = "installed"
    /\ activatePc = "waiting"
    /\ keys' = cacheKeys
    /\ toDelete' = ToDeleteOf(cacheKeys)
    /\ activatePc' = "deleting"
    /\ lateOpened' = {}
    /\ UNCHANGED <<cacheKeys, content, gen, installPc, hs, curLeft, oldLeft, pxVars>>

\* one caches.delete(k) takes effect
ActivateDelete(k) ==
    /\ activatePc = "deleting"
    /\ k \in toDelete
    /\ toDelete' = toDelete \ {k}
    /\ cacheKeys' = cacheKeys \ {k}
    /\ content' = [content EXCEPT ![k] = EmptyStore]
    /\ gen' = [gen EXCEPT ![k] = IF k \in cacheKeys THEN @ + 1 ELSE @]
    /\ UNCHANGED <<installPc, activatePc, keys, hs, curLeft, oldLeft, lateOpened, pxVars>>

\* await Promise.all(...) has settled; self.clients.claim()
ActivateDone ==
    /\ activatePc = "deleting"
    /\ toDelete = {}
    /\ activatePc' = "done"
    /\ UNCHANGED <<cacheKeys, content, gen, installPc, keys, toDelete, hs, curLeft, oldLeft,
                   lateOpened, pxVars>>

(***************************************************************************)
(* fetch handler (sw.js:23-64).  One action per step between two awaits.   *)
(***************************************************************************)
\* the store a branch of the handler opens
StoreOf(h) ==
    IF Strategy(h.req) = "tile" THEN RUNTIME_CACHE(h.ver) ELSE APP_CACHE(h.ver)

LateOpen(h, name) ==
    IF h.ver = OLD_VERSION /\ activatePc \in {"deleting", "done"}
    THEN lateOpened \cup {name}
    ELSE lateOpened

\* the event is dispatched: the handler classifies the request and runs to
\* its first await.  The worker that is active takes the event: the
\* superseded one until this one has activated, this one from then on.
StartFetch(i, v, req) ==
    /\ hs[i].pc = "idle"
    /\ \A j \in Handlers : j < i => hs[j].pc # "idle"
    /\ IF v = VERSION
       THEN curLeft > 0 /\ activatePc = "done" /\ req \in FetchRequests
       ELSE oldLeft > 0 /\ activatePc # "done" /\ req \in OldRequests
    /\ hs' = [hs EXCEPT ![i] =
          CASE Strategy(req) = "shell" ->
                 [@ EXCEPT !.ver = v, !.req = req, !.pc = "fetching", !.net = "pending"]
            [] Strategy(req) \in {"static", "tile"} ->
                 [@ EXCEPT !.ver = v, !.req = req, !.pc = "opening"]
            [] OTHER ->
                 [@ EXCEPT !.ver = v, !.req = req, !.pc = "done", !.out = NotCalled]]
    /\ curLeft' = IF v = VERSION THEN curLeft - 1 ELSE curLeft
    /\ oldLeft' = IF v = OLD_VERSION THEN oldLeft - 1 ELSE oldLeft
    /\ UNCHANGED <<cacheKeys, content, gen, installPc, activatePc, keys, toDelete,
                   lateOpened, pxVars>>

\* static and tile branches: const c = await caches.open(...)
Open(i) ==
    /\ hs[i].pc = "opening"
    /\ cacheKeys' = OpenKeys(StoreOf(hs[i]))
    /\ hs' = [hs EXCEPT ![i].c = Handle(StoreOf(hs[i])), ![i].pc = "matching"]
    /\ lateOpened' = LateOpen(hs[i], StoreOf(hs[i]))
    /\ UNCHANGED <<content, gen, installPc, activatePc, keys, toDelete, curLeft, oldLeft, pxVars>>

\* tile branch: return hit ? Promise.race([net, hit]) : net
TileReturnAwaitNet(net, hit) == net
TileReturn(net, hit) ==
    IF hit # NoEntry THEN PromiseRace(<<net, hit>>) ELSE net

AsOutcome(x) == IF x = "pending" THEN Pending ELSE Resolved(x)

\* const hit = await c.match(e.request), and what follows up to the next await
\* static: if (hit) return hit; otherwise fetch(e.request)
\* tile: fetch(e.request) is started and the handler returns the race or net
MatchStep(i) ==
    /\ hs[i].pc = "matching"
    /\ LET h == hs[i]
           hit == Match(h.c, h.req)
       IN hs' = [hs EXCEPT ![i] =
            IF Strategy(h.req) = "static"
            THEN IF hit # NoEntry
                 THEN [h EXCEPT !.hit = hit, !.out = Resolved(hit), !.pc = "done"]
                 ELSE [h EXCEPT !.hit = hit, !.net = "pending", !.pc = "fetching"]
            ELSE [h EXCEPT !.hit = hit, !.net = "pending", !.pc = "fetching",
                           !.out = AsOutcome(TileReturn("pending", hit))]]
    /\ UNCHANGED <<cacheKeys, content, gen, installPc, activatePc, keys, toDelete,
                    curLeft, oldLeft, lateOpened, pxVars>>

\* whether handler h, given the response r by the network, calls c.put
\* shell: c.put(...) always; static and tile: if (res.ok) c.put(...)
PutAfterAlways(h, r) == "pending"
PutAfterOkOnly(h, r) == IF Ok(r) THEN "pending" ELSE "none"
PutAfterLostRace(h, r) ==
    IF Strategy(h.req) = "shell" \/ (Ok(r) /\ h.out = Pending) THEN "pending"
    ELSE "none"
PutAfter(h, r) ==
    IF Strategy(h.req) = "shell" \/ Ok(r) THEN "pending" ELSE "none"

\* the network fetch resolves with r
NetResolve(i, r) ==
    /\ hs[i].pc = "fetching"
    /\ hs[i].net = "pending"
    /\ LET h == hs[i]
           s == Strategy(h.req)
       IN hs' = [hs EXCEPT ![i] =
            CASE s = "shell" -> [h EXCEPT !.net = r, !.pc = "storing"]
              [] s = "static" ->
                   [h EXCEPT !.net = r, !.pc = "done", !.out = Resolved(r),
                             !.put = PutAfter(h, r)]
              [] OTHER ->
                   [h EXCEPT !.net = r, !.pc = "done",
                             !.out = IF h.out = Pending THEN Resolved(r) ELSE h.out,
                             !.put = PutAfter(h, r)]]
    /\ UNCHANGED <<cacheKeys, content, gen, installPc, activatePc, keys, toDelete,
                    curLeft, oldLeft, lateOpened, pxVars>>

\* the value the tile branch's net promise takes when fetch rejects:
\* .catch(() => hit), and hit is undefined when the store had no entry
CatchHit(hit) == IF hit # NoEntry THEN Resolved(hit) ELSE Undefined

\* the network fetch rejects
NetReject(i) ==
    /\ hs[i].pc = "fetching"
    /\ hs[i].net = "pending"
    /\ LET h == hs[i]
           s == Strategy(h.req)
       IN hs' = [hs EXCEPT ![i] =
            CASE s = "shell" -> [h EXCEPT !.net = "failed", !.pc = "fallback_open"]
              [] s = "static" ->
                   [h EXCEPT !.net = "failed", !.pc = "done", !.out = Rejected]
              [] OTHER ->
                   [h EXCEPT !.net = "failed", !.pc = "done",
                             !.out = IF h.out = Pending THEN CatchHit(h.hit)
                                     ELSE h.out]]
    /\ UNCHANGED <<cacheKeys, content, gen, installPc, activatePc, keys, toDelete,
                    curLeft, oldLeft, lateOpened, pxVars>>

\* shell branch, try: const c = await caches.open(APP_CACHE);
\* c.put(e.request, res.clone()); return res
ShellStoreReturnsCached(i) ==
    /\ hs[i].pc = "storing"
    /\ cacheKeys' = OpenKeys(StoreOf(hs[i]))
    /\ LET c == Handle(StoreOf(hs[i]))
           hit == IF StoreOf(hs[i]) \in cacheKeys
                  THEN content[StoreOf(hs[i])][hs[i].req] ELSE NoEntry
       IN hs' = [hs EXCEPT ![i].c = c, ![i].pc = "done",
                           ![i].put = PutAfter(hs[i], hs[i].net),
                           ![i].out = IF hit # NoEntry THEN Resolved(hit)
                                      ELSE Resolved(hs[i].net)]
    /\ lateOpened' = LateOpen(hs[i], StoreOf(hs[i]))
    /\ UNCHANGED <<content, gen, installPc, activatePc, keys, toDelete, curLeft,
                   oldLeft, pxVars>>
ShellStore(i) ==
    /\ hs[i].pc = "storing"
    /\ cacheKeys' = OpenKeys(StoreOf(hs[i]))
    /\ hs' = [hs EXCEPT ![i].c = Handle(StoreOf(hs[i])), ![i].pc = "done",
                        ![i].put = PutAfter(hs[i], hs[i].net),
                        ![i].out = Resolved(hs[i].net)]
    /\ lateOpened' = LateOpen(hs[i], StoreOf(hs[i]))
    /\ UNCHANGED <<content, gen, installPc, activatePc, keys, toDelete, curLeft, oldLeft, pxVars>>

\* shell branch, catch: const c = await caches.open(APP_CACHE)
ShellFallbackOpen(i) ==
    /\ hs[i].pc = "fallback_open"
    /\ cacheKeys' = OpenKeys(StoreOf(hs[i]))
    /\ hs' = [hs EXCEPT ![i].c = Handle(StoreOf(hs[i])), ![i].pc = "fallback_match"]
    /\ lateOpened' = LateOpen(hs[i], StoreOf(hs[i]))
    /\ UNCHANGED <<content, gen, installPc, activatePc, keys, toDelete, curLeft, oldLeft, pxVars>>

\* (await c.match(e.request)) || Response.error()
Fallback(hit) == IF hit # NoEntry THEN Resolved(hit) ELSE ErrorResponse

ShellFallbackMatch(i) ==
    /\ hs[i].pc = "fallback_match"
    /\ LET hit == Match(hs[i].c, hs[i].req)
       IN hs' = [hs EXCEPT ![i].hit = hit, ![i].pc = "done", ![i].out = Fallback(hit)]
    /\ UNCHANGED <<cacheKeys, content, gen, installPc, activatePc, keys, toDelete,
                    curLeft, oldLeft, lateOpened, pxVars>>

\* a c.put(request, response) issued by a handler takes effect: the entry of
\* the store the handle is bound to is overwritten
PutLand(i) ==
    /\ hs[i].put = "pending"
    /\ IF Live(hs[i].c)
       THEN /\ content' = [content EXCEPT ![hs[i].c.name][hs[i].req] = hs[i].net]
            /\ hs' = [hs EXCEPT ![i].put = "landed"]
       ELSE /\ hs' = [hs EXCEPT ![i].put = "lost"]
            /\ UNCHANGED content
    /\ UNCHANGED <<cacheKeys, gen, installPc, activatePc, keys, toDelete, curLeft, oldLeft,
                   lateOpened, pxVars>>

(***************************************************************************)
(* map-api-proxy/src/index.js.  A request is its method and its query      *)
(* parameters, a sequence of <<key, value>> pairs (URLSearchParams keeps   *)
(* their order and repeated keys).  Strings that are searched or rewritten *)
(* are sequences of tokens.                                                *)
(***************************************************************************)
\* the most query parameters of a request
MaxParams == 3

Null == "null"
\* env.OS_NGD_API_KEY
Credential == "SECRET"
\* url.origin of the proxy
ProxyOrigin == "https://proxy.example"

\* searchParams.get(key): the first value under the key, or null
RECURSIVE Get(_, _)
Get(params, key) ==
    IF params = <<>> THEN Null
    ELSE IF Head(params)[1] = key THEN Head(params)[2]
    ELSE Get(Tail(params), key)

\* searchParams.has(key)
Has(params, key) == \E k \in 1..Len(params) : params[k][1] = key

\* a JavaScript string that is truthy
Truthy(v) == v # Null /\ v # ""

\* the decisions of fetch (index.js:23-89), in the order of the code
ClassifyNoMissingCheck(params) ==
    LET serviceType == Get(params, "service")
        hasWMSParams == Has(params, "BBOX") \/ Has(params, "bbox")
        hasServiceParam == Has(params, "SERVICE") \/ Has(params, "service")
    IN IF hasWMSParams /\ (serviceType = "lidar" \/ hasServiceParam) THEN "lidar"
       ELSE IF serviceType = "lidar" THEN "lidar"
       ELSE IF serviceType = "tiles" THEN "tiles"
       ELSE IF serviceType = "features" THEN "features"
       ELSE "invalid"
ClassifyUpperOnly(params) ==
    LET serviceType == Get(params, "service")
    IN IF Has(params, "BBOX")
          /\ (serviceType = "lidar" \/ Has(params, "SERVICE") \/ Has(params, "service"))
       THEN "lidar"
       ELSE IF ~Truthy(serviceType) THEN "missing"
       ELSE IF serviceType = "lidar" THEN "lidar"
       ELSE IF serviceType = "tiles" THEN "tiles"
       ELSE IF serviceType = "features" THEN "features"
       ELSE "invalid"
Classify(params) ==
    LET serviceType == Get(params, "service")
        hasWMSParams == Has(params, "BBOX") \/ Has(params, "bbox")
        hasServiceParam == Has(params, "SERVICE") \/ Has(params, "service")
    IN IF hasWMSParams /\ (serviceType = "lidar" \/ hasServiceParam) THEN "lidar"
       ELSE IF ~Truthy(serviceType) THEN "missing"
       ELSE IF serviceType = "lidar" THEN "lidar"
       ELSE IF serviceType = "tiles" THEN "tiles"
       ELSE IF serviceType = "features" THEN "features"
       ELSE "invalid"

\* url.searchParams.get('collection') || 'ngd-base'
CollectionOf(params) ==
    IF Truthy(Get(params, "collection")) THEN Get(params, "collection")
    ELSE "ngd-base"

\* url.searchParams.get('path') || ''
PathOf(params) == IF Truthy(Get(params, "path")) THEN Get(params, "path") ELSE ""

\* the parameters that are not the proxy's own, in order
RECURSIVE AdditionalParams(_)
AdditionalParams(params) ==
    IF params = <<>> THEN <<>>
    ELSE IF Head(params)[1] \in {"service", "collection", "path"}
         THEN AdditionalParams(Tail(params))
         ELSE <<Head(params)>> \o AdditionalParams(Tail(params))

\* apiUrl (index.js:56-101)
ApiUrl(params, apiKey) ==
    IF Classify(params) = "tiles"
    THEN [api |-> "https://api.os.uk/maps/vector/ngd/ota/v1/collections/",
          collection |-> CollectionOf(params),
          path |-> IF Truthy(PathOf(params)) THEN PathOf(params) ELSE "styles/3857",
          key |-> apiKey,
          query |-> AdditionalParams(params)]
    ELSE [api |-> "https://api.os.uk/features/ngd/ofa/v1/",
          collection |-> "",
          path |-> PathOf(params),
          key |-> apiKey,
          query |-> AdditionalParams(params)]

(***************************************************************************)
(* detectRegion and getWMSConfig (index.js:271-355).  A bounding box is    *)
(* the sequence of numbers parseFloat gives (integers here, NaN for what   *)
(* does not parse); the centre is kept doubled, and each test on the       *)
(* latitude or longitude converted from Web Mercator is the same test on   *)
(* the Mercator coordinate against the threshold's Mercator image, the     *)
(* conversion being increasing.                                            *)
(***************************************************************************)
\* Math.abs(centre) > 20000, on the doubled centre
MercatorLimit2 == 40000
\* the thresholds in tenths of a degree
ScotlandLat10 == 553
WalesLon10 == -25
WalesLatLo10 == 513
WalesLatHi10 == 535
NILon10 == -55
NILatLo10 == 540
NILatHi10 == 555
\* twice their Web Mercator images in metres: floor for >, ceiling for <
ScotlandLatM2 == 14840618
WalesLonM2 == -556597
WalesLatLoM2 == 13349065
WalesLatHiM2 == 14152051
NILonM2 == -1224514
NILatLoM2 == 14340312
NILatHiM2 == 14919034

Abs(n) == IF n < 0 THEN -n ELSE n

\* parseFloat of what is not a number; no coordinate has this value
NaN == -999999999

Sum2(a, b) == IF a = NaN \/ b = NaN THEN NaN ELSE a + b

\* v > threshold, for the doubled centre v in degrees or in metres
Above(v, mercator, deg10, m2) ==
    /\ v # NaN
    /\ IF mercator THEN v > m2 ELSE 10 * v > 2 * deg10

Below(v, mercator, deg10, m2) ==
    /\ v # NaN
    /\ IF mercator THEN v < m2 ELSE 10 * v < 2 * deg10

detectRegionNIFirst(coords) ==
    IF Len(coords) # 4 THEN "england"
    ELSE LET cx == Sum2(coords[1], coords[3])
             cy == Sum2(coords[2], coords[4])
             big(v) == v # NaN /\ Abs(v) > MercatorLimit2
             m == big(cx) \/ big(cy)
         IN IF /\ Below(cx, m, NILon10, NILonM2)
               /\ Above(cy, m, NILatLo10, NILatLoM2)
               /\ Below(cy, m, NILatHi10, NILatHiM2)
            THEN "northern_ireland"
            ELSE IF Above(cy, m, ScotlandLat10, ScotlandLatM2) THEN "scotland"
            ELSE IF /\ Below(cx, m, WalesLon10, WalesLonM2)
                    /\ Above(cy, m, WalesLatLo10, WalesLatLoM2)
                    /\ Below(cy, m, WalesLatHi10, WalesLatHiM2)
                 THEN "wales"
            ELSE "england"
detectRegion(coords) ==
    IF Len(coords) # 4 THEN "england"
    ELSE LET cx == Sum2(coords[1], coords[3])
             cy == Sum2(coords[2], coords[4])
             big(v) == v # NaN /\ Abs(v) > MercatorLimit2
             m == big(cx) \/ big(cy)
         IN IF Above(cy, m, ScotlandLat10, ScotlandLatM2) THEN "scotland"
            ELSE IF /\ Below(cx, m, WalesLon10, WalesLonM2)
                    /\ Above(cy, m, WalesLatLo10, WalesLatLoM2)
                    /\ Below(cy, m, WalesLatHi10, WalesLatHiM2)
                 THEN "wales"
            ELSE IF /\ Below(cx, m, NILon10, NILonM2)
                    /\ Above(cy, m, NILatLo10, NILatLoM2)
                    /\ Below(cy, m, NILatHi10, NILatHiM2)
                 THEN "northern_ireland"
            ELSE "england"

Regions == {"england", "scotland", "wales", "northern_ireland"}

EnglandWms ==
    [url |-> "https://environment.data.gov.uk/spatialdata/lidar-composite-digital-terrain-model-dtm-1m/wms",
     layers |-> "Lidar_Composite_Hillshade_DTM_1m"]

\* configs[region] || configs.england: the four entries are the same
getWMSConfig(region) == EnglandWms

(***************************************************************************)
(* handleLidarRequest (index.js:184-226): the outbound WMS parameters.     *)
(***************************************************************************)
ToLower(v) ==
    CASE v = "SERVICE" -> "service"
      [] v = "LIDAR" -> "lidar"
      [] v = "BBOX" -> "bbox"
      [] v = "WMS" -> "wms"
      [] v = "LAYERS" -> "layers"
      [] OTHER -> v

\* the copy loop: every pair but a service key holding lidar
RECURSIVE CopyParamsExactKey(_)
CopyParamsExactKey(params) ==
    IF params = <<>> THEN <<>>
    ELSE IF Head(params)[1] = "service" /\ Head(params)[2] = "lidar"
         THEN CopyParamsExactKey(Tail(params))
         ELSE <<Head(params)>> \o CopyParamsExactKey(Tail(params))
RECURSIVE CopyParams(_)
CopyParams(params) ==
    IF params = <<>> THEN <<>>
    ELSE IF ToLower(Head(params)[1]) = "service" /\ ToLower(Head(params)[2]) = "lidar"
         THEN CopyParams(Tail(params))
         ELSE <<Head(params)>> \o CopyParams(Tail(params))

RECURSIVE DropKey(_, _)
DropKey(params, key) ==
    IF params = <<>> THEN <<>>
    ELSE IF Head(params)[1] = key THEN DropKey(Tail(params), key)
    ELSE <<Head(params)>> \o DropKey(Tail(params), key)

\* URLSearchParams.set(key, value): the first pair under the key takes the
\* value and the others are removed; with none, the pair is appended
RECURSIVE SetParam(_, _, _)
SetParam(params, key, value) ==
    IF params = <<>> THEN <<<<key, value>>>>
    ELSE IF Head(params)[1] = key
         THEN <<<<key, value>>>> \o DropKey(Tail(params), key)
         ELSE <<Head(params)>> \o SetParam(Tail(params), key, value)

\* a BBOX value as the code splits and parses it
BBoxCoords ==
    [b_london |-> <<-1, 51, 1, 52>>,
     b_scotland |-> <<-4, 56, -3, 57>>,
     b_scotland_east |-> <<10, 56, 12, 58>>,
     b_scotland_edge |-> <<-6, 55, -6, 56>>,
     b_wales |-> <<-4, 51, -2, 53>>,
     b_wales_west |-> <<-7, 52, -5, 52>>,
     b_wales_lon_edge |-> <<-3, 52, -2, 52>>,
     b_wales_lat_top |-> <<-3, 53, -3, 54>>,
     b_wales_lat_bottom |-> <<-3, 51, -3, 51>>,
     b_ni |-> <<-7, 54, -5, 55>>,
     b_ni_lat55 |-> <<-6, 55, -6, 55>>,
     b_ni_lat_bottom |-> <<-6, 54, -6, 54>>,
     b_ni_lon_edge |-> <<-6, 54, -5, 55>>,
     b_irish_sea |-> <<-5, 54, -4, 55>>,
     b_short |-> <<1, 2, 3>>,
     b_long |-> <<-4, 56, -3, 57, 58>>,
     b_nan |-> <<NaN, NaN, NaN, NaN>>,
     b_nan_lon |-> <<NaN, 56, -3, 57>>,
     b_nan_lat |-> <<-4, NaN, -3, 53>>,
     m_london |-> <<-20000, 6700000, -2000, 6720000>>,
     m_scotland_ni |-> <<-700000, 7400000, -600000, 7500000>>,
     m_ni |-> <<-700000, 7200000, -600000, 7300000>>,
     m_wales |-> <<-400000, 6800000, -300000, 6900000>>,
     m_scotland_lat_only |-> <<0, 7600000, 10, 7700000>>,
     m_england_north |-> <<-200000, 7300000, -100000, 7350000>>,
     m_near_origin |-> <<10000, 15000, 10000, 15000>>]

ParseBBox(v) == IF v \in DOMAIN BBoxCoords THEN BBoxCoords[v] ELSE <<NaN>>

\* the region of index.js:193-203: detectRegion(bbox), england with no bbox
LidarRegion(params) ==
    LET bbox == IF Truthy(Get(params, "BBOX")) THEN Get(params, "BBOX")
                ELSE Get(params, "bbox")
    IN IF Truthy(bbox) THEN detectRegion(ParseBBox(bbox)) ELSE "england"

LidarConfig(params) == getWMSConfig(LidarRegion(params))

WmsParams(params) ==
    LET copied == CopyParams(params)
        withService == IF ~Has(copied, "SERVICE") /\ ~Has(copied, "service")
                       THEN SetParam(copied, "SERVICE", "WMS")
                       ELSE copied
    IN SetParam(withService, "LAYERS", LidarConfig(params).layers)

WmsUrl(params) ==
    [api |-> LidarConfig(params).url, collection |-> "", path |-> "",
     key |-> "", query |-> WmsParams(params)]

(***************************************************************************)
(* The response rewriting (index.js:115-152).                              *)
(***************************************************************************)
Absent == "absent"
\* a member of an object that may be missing: <<>> or <<value>>
None == <<>>
Some(x) == <<x>>
IsSome(o) == o # <<>>
Val(o) == o[1]
\* the " that delimits a JSON string, and a " inside one (written \")
Quote == "\""
EscQuote == "\\\""

\* tokens whose first character is & or "
Stoppers == {"&", "&key=", "&collection=", "&path=tiles/3857/{z}/{y}/{x}", Quote, EscQuote}

\* the length of the longest run of tokens without & and " from position k
RECURSIVE Run(_, _)
Run(text, k) ==
    IF k > Len(text) \/ text[k] \in Stoppers THEN 0 ELSE 1 + Run(text, k + 1)

\* text.replace(/<prefix>[^"&]+/g, ''): every prefix token followed by at
\* least one character other than " and & is removed with all of them
RECURSIVE StripFrom(_, _, _)
StripFrom(text, prefix, k) ==
    IF k > Len(text) THEN <<>>
    ELSE IF text[k] = prefix /\ Run(text, k + 1) > 0
         THEN StripFrom(text, prefix, k + 1 + Run(text, k + 1))
         ELSE <<text[k]>> \o StripFrom(text, prefix, k + 1)

\* jsonText.replace(/\?key=[^"&]+/g, '').replace(/&key=[^"&]+/g, '')
Cleaned(text) == StripFrom(StripFrom(text, "?key=", 1), "&key=", 1)

StrLit(tokens) == <<Quote>> \o tokens \o <<Quote>>

\* the proxy's tile template (index.js:133)
TileTemplate(collection) ==
    <<ProxyOrigin, "?service=tiles", "&collection=", collection,
      "&path=tiles/3857/{z}/{y}/{x}">>

\* A style document: sources maps collection ids to [url, tiles]; center, zoom
\* and sprite may be absent.  JSON.stringify writes the members in order.
Collections == <<"ngd-base", "c1">>

StringifySource(src) ==
    <<"{">>
    \o (IF IsSome(src.url) THEN <<"url:">> \o StrLit(Val(src.url)) ELSE <<>>)
    \o (IF IsSome(src.tiles) THEN <<"tiles:[">> \o StrLit(Val(src.tiles)) \o <<"]">>
        ELSE <<>>)
    \o <<"}">>

RECURSIVE StringifySources(_, _)
StringifySources(sources, k) ==
    IF k > Len(Collections) THEN <<>>
    ELSE (IF Collections[k] \in DOMAIN sources
          THEN StrLit(<<Collections[k]>>) \o <<":">>
                   \o StringifySource(sources[Collections[k]])
          ELSE <<>>)
         \o StringifySources(sources, k + 1)

Stringify(data) ==
    <<"{">>
    \o (IF IsSome(data.sources)
        THEN <<"sources:{">> \o StringifySources(Val(data.sources), 1) \o <<"}">>
        ELSE <<>>)
    \o (IF IsSome(data.center) THEN <<"center:", Val(data.center)>> ELSE <<>>)
    \o (IF IsSome(data.zoom) THEN <<"zoom:", Val(data.zoom)>> ELSE <<>>)
    \o (IF IsSome(data.sprite) THEN <<"sprite:">> \o StrLit(Val(data.sprite)) ELSE <<>>)
    \o <<"}">>

\* if (data.sources && serviceType === 'tiles') { ... } (index.js:123-143)
RewriteStyleKeepView(data, route, collection) ==
    IF IsSome(data.sources) /\ route = "tiles"
    THEN LET old == Val(data.sources)
             sources ==
                 IF /\ collection \in DOMAIN old
                    /\ IsSome(old[collection].url)
                    /\ Val(old[collection].url) # <<>>
                 THEN [old EXCEPT
                          ![collection] = [url |-> None,
                                           tiles |-> Some(TileTemplate(collection))]]
                 ELSE old
         IN [data EXCEPT !.sources = Some(sources)]
    ELSE data
RewriteStyle(data, route, collection) ==
    IF IsSome(data.sources) /\ route = "tiles"
    THEN LET old == Val(data.sources)
             sources ==
                 IF /\ collection \in DOMAIN old
                    /\ IsSome(old[collection].url)
                    /\ Val(old[collection].url) # <<>>
                 THEN [old EXCEPT
                          ![collection] = [url |-> None,
                                           tiles |-> Some(TileTemplate(collection))]]
                 ELSE old
         IN [data EXCEPT !.sources = Some(sources), !.center = None, !.zoom = None]
    ELSE data

(***************************************************************************)
(* The responses of the proxy.                                             *)
(***************************************************************************)
PreflightResponse ==
    [status |-> 200, ctype |-> Absent, cors |-> "*", cache |-> Absent,
     body |-> [kind |-> "null"]]

MissingBody ==
    [error |-> "Missing service parameter",
     usage |-> <<"Add ", "?service=", "tiles", ", ", "?service=", "features",
                 ", or ", "?service=", "lidar">>]

InvalidBody ==
    [error |-> "Invalid service type",
     validTypes |-> <<"tiles", "features", "lidar">>]

ErrorBody(error, message) == [error |-> error, message |-> message]

JsonResponse(status, obj) ==
    [status |-> status, ctype |-> "application/json", cors |-> "*",
     cache |-> Absent, body |-> [kind |-> "json", obj |-> obj]]

DataResponse(status, ctype, text) ==
    [status |-> status, ctype |-> ctype, cors |-> "*",
     cache |-> "public, max-age=3600", body |-> [kind |-> "text", text |-> text]]

NoResponse == [status |-> 0, ctype |-> Absent, cors |-> Absent, cache |-> Absent,
               body |-> [kind |-> "null"]]

\* what the upstream may send: text, or a JSON value
NoSources == [sources |-> None, center |-> None, zoom |-> None, sprite |-> None]
StyleUrl == <<"https://api.os.uk/tiles", "?key=", Credential>>
StyleDoc ==
    [sources |-> Some([c \in {"ngd-base"} |-> [url |-> Some(StyleUrl), tiles |-> None]]),
     center |-> Some("c"), zoom |-> Some("z"),
     sprite |-> Some(<<"https://api.os.uk/sprite", "?key=", Credential, "&", "v=1">>)]

\* a style with a source under either collection id, and one whose url is ""
StyleDocC1 ==
    [StyleDoc EXCEPT !.sources =
        Some([c \in {"ngd-base", "c1"} |-> [url |-> Some(StyleUrl), tiles |-> None]])]
StyleDocEmptyUrl ==
    [StyleDoc EXCEPT !.sources =
        Some([c \in {"ngd-base", "c1"} |-> [url |-> Some(<<>>), tiles |-> None]]),
        !.sprite = None]

JsonDocs ==
    {NoSources, StyleDoc, StyleDocC1, StyleDocEmptyUrl,
     [StyleDoc EXCEPT !.center = None, !.zoom = None, !.sprite = None],
     [NoSources EXCEPT !.sprite = Some(<<"glyphs", "&key=", Credential>>)],
     [NoSources EXCEPT !.sprite = Some(<<"invalid key ", Credential>>)],
     [NoSources EXCEPT !.sprite = Some(<<"https://api.os.uk/sprite", "?key=", "&key=",
                                         Credential>>)],
     [NoSources EXCEPT !.sprite = Some(<<"u", ";key=", Credential, "&", "v=1", "?key=",
                                         Credential>>)],
     [NoSources EXCEPT !.center = Some("c")]}

TextBodies ==
    {<<>>, <<"png">>,
     <<"Not found: ", "https://api.os.uk/x", "?key=", Credential, "&", "v=1">>}

ContentTypes == {"application/json", "text/plain", "image/png", ""}
Statuses == {200, 404}

NetworkFailure == [status |-> 0, ctype |-> "", body |-> [kind |-> "none"]]
Failed(reply) == reply.status = 0

Replies ==
    {NetworkFailure} \cup
    [status : Statuses, ctype : ContentTypes,
     body : [kind : {"text"}, text : TextBodies]
            \cup [kind : {"json"}, doc : JsonDocs]
            \cup {[kind |-> "json_null"]}]

\* the replies in the scenarios that vary the request
FewReplies ==
    {NetworkFailure,
     [status |-> 200, ctype |-> "image/png", body |-> [kind |-> "text", text |-> <<"png">>]],
     [status |-> 404, ctype |-> "application/json",
      body |-> [kind |-> "json", doc |-> NoSources]]}

\* the text of a body as it is on the wire
BodyText(body) ==
    CASE body.kind = "text" -> body.text
      [] body.kind = "json" -> Stringify(body.doc)
      [] OTHER -> <<"null">>

\* contentType.includes('application/json')
IsJson(ctype) == ctype = "application/json"

\* index.js:115-162: the response for an upstream reply; apiResponse.json()
\* throws on a body that is not JSON, and data.sources on null
NgdResponseOkStatus(reply, route, collection) ==
    IF IsJson(reply.ctype)
    THEN CASE reply.body.kind = "text" ->
                JsonResponse(500, ErrorBody("Proxy request failed",
                                            "Unexpected token in JSON"))
           [] reply.body.kind = "json_null" ->
                JsonResponse(500, ErrorBody("Proxy request failed",
                                            "Cannot read properties of null"))
           [] OTHER ->
                DataResponse(200, reply.ctype,
                    Cleaned(Stringify(RewriteStyle(reply.body.doc, route, collection))))
    ELSE DataResponse(200, reply.ctype, BodyText(reply.body))
NgdResponseNoCatch(reply, route, collection) ==
    IF IsJson(reply.ctype)
    THEN CASE reply.body.kind \in {"text", "json_null"} -> NoResponse
           [] OTHER ->
                DataResponse(reply.status, reply.ctype,
                    Cleaned(Stringify(RewriteStyle(reply.body.doc, route, collection))))
    ELSE DataResponse(reply.status, reply.ctype, BodyText(reply.body))
NgdResponse(reply, route, collection) ==
    IF IsJson(reply.ctype)
    THEN CASE reply.body.kind = "text" ->
                JsonResponse(500, ErrorBody("Proxy request failed",
                                            "Unexpected token in JSON"))
           [] reply.body.kind = "json_null" ->
                JsonResponse(500, ErrorBody("Proxy request failed",
                                            "Cannot read properties of null"))
           [] OTHER ->
                DataResponse(reply.status, reply.ctype,
                    Cleaned(Stringify(RewriteStyle(reply.body.doc, route, collection))))
    ELSE DataResponse(reply.status, reply.ctype, BodyText(reply.body))

\* index.js:239-250: wmsResponse.headers.get('content-type') || 'image/png'
LidarResponse(reply) ==
    DataResponse(reply.status,
                 IF reply.ctype = "" THEN "image/png" ELSE reply.ctype,
                 BodyText(reply.body))

NoUrl == [api |-> "", collection |-> "", path |-> "", key |-> "", query |-> <<>>]

RECURSIVE SeqsUpTo(_, _)
SeqsUpTo(S, n) ==
    IF n = 0 THEN {<<>>}
    ELSE LET shorter == SeqsUpTo(S, n - 1)
         IN shorter \cup {<<x>> \o t : x \in S, t \in {u \in shorter : Len(u) = n - 1}}

Methods == {"GET", "OPTIONS"}

\* the parameters in the scenarios that vary the request
ClassifyPairs ==
    {<<"service", v>> : v \in {"tiles", "features", "lidar", "bogus", ""}}
    \cup {<<"SERVICE", "WMS">>, <<"SERVICE", "lidar">>, <<"service", "LIDAR">>,
          <<"BBOX", "b_london">>, <<"bbox", "b_scotland">>, <<"LAYERS", "mine">>}

\* the parameters in the scenarios that vary the upstream's reply
RewritePairs ==
    {<<"service", "tiles">>, <<"service", "features">>, <<"service", "lidar">>,
     <<"service", "bogus">>, <<"collection", "c1">>, <<"path", "p">>}

InitPx ==
    /\ pxMethod \in Methods
    /\ pxPc = "start"
    /\ pxRoute = "none"
    /\ pxUpstream = NoUrl
    /\ pxCalls = 0
    /\ pxRegion = "none"
    /\ pxResp = NoResponse

InitProxyOff ==
    /\ pxMethod = "GET"
    /\ pxParams = <<>>
    /\ pxReply = NetworkFailure
    /\ pxPc = "off"
    /\ pxRoute = "none"
    /\ pxUpstream = NoUrl
    /\ pxCalls = 0
    /\ pxRegion = "none"
    /\ pxResp = NoResponse

\* if (request.method === 'OPTIONS') return new Response(null, ...)
Preflight ==
    /\ pxPc = "start"
    /\ pxMethod = "OPTIONS"
    /\ pxResp' = PreflightResponse
    /\ pxPc' = "done"
    /\ UNCHANGED <<pxMethod, pxParams, pxReply, pxRoute, pxUpstream, pxCalls, pxRegion, swVars>>

\* if (!serviceType) return new Response(..., {status: 400})
MissingService ==
    /\ pxPc = "start"
    /\ pxMethod # "OPTIONS"
    /\ Classify(pxParams) = "missing"
    /\ pxRoute' = "missing"
    /\ pxResp' = JsonResponse(400, MissingBody)
    /\ pxPc' = "done"
    /\ UNCHANGED <<pxMethod, pxParams, pxReply, pxUpstream, pxCalls, pxRegion, swVars>>

\* else return new Response(..., {status: 400})
InvalidService ==
    /\ pxPc = "start"
    /\ pxMethod # "OPTIONS"
    /\ Classify(pxParams) = "invalid"
    /\ pxRoute' = "invalid"
    /\ pxResp' = JsonResponse(400, InvalidBody)
    /\ pxPc' = "done"
    /\ UNCHANGED <<pxMethod, pxParams, pxReply, pxUpstream, pxCalls, pxRegion, swVars>>

\* const apiResponse = await fetch(apiUrl, ...)
ForwardNgd ==
    /\ pxPc = "start"
    /\ pxMethod # "OPTIONS"
    /\ Classify(pxParams) \in {"tiles", "features"}
    /\ pxRoute' = Classify(pxParams)
    /\ pxUpstream' = ApiUrl(pxParams, Credential)
    /\ pxCalls' = pxCalls + 1
    /\ pxPc' = "ngd"
    /\ UNCHANGED <<pxMethod, pxParams, pxReply, pxResp, pxRegion, swVars>>

\* return await this.handleLidarRequest(url, request), to its fetch
ForwardLidar ==
    /\ pxPc = "start"
    /\ pxMethod # "OPTIONS"
    /\ Classify(pxParams) = "lidar"
    /\ pxRoute' = "lidar"
    /\ pxRegion' = LidarRegion(pxParams)
    /\ pxUpstream' = WmsUrl(pxParams)
    /\ pxCalls' = pxCalls + 1
    /\ pxPc' = "lidar"
    /\ UNCHANGED <<pxMethod, pxParams, pxReply, pxResp, swVars>>

\* the upstream answers and the response is built, or the body does not
\* parse and the catch of fetch answers
NgdReply ==
    /\ pxPc = "ngd"
    /\ ~Failed(pxReply)
    /\ pxResp' = NgdResponse(pxReply, pxRoute, CollectionOf(pxParams))
    /\ pxPc' = "done"
    /\ UNCHANGED <<pxMethod, pxParams, pxReply, pxRoute, pxUpstream, pxCalls, pxRegion, swVars>>

\* fetch rejects: catch (error) of fetch (index.js:164-180)
NgdFail ==
    /\ pxPc = "ngd"
    /\ Failed(pxReply)
    /\ pxResp' = JsonResponse(500, ErrorBody("Proxy request failed", "fetch failed"))
    /\ pxPc' = "done"
    /\ UNCHANGED <<pxMethod, pxParams, pxReply, pxRoute, pxUpstream, pxCalls, pxRegion, swVars>>

LidarReply ==
    /\ pxPc = "lidar"
    /\ ~Failed(pxReply)
    /\ pxResp' = LidarResponse(pxReply)
    /\ pxPc' = "done"
    /\ UNCHANGED <<pxMethod, pxParams, pxReply, pxRoute, pxUpstream, pxCalls, pxRegion, swVars>>

\* fetch rejects: catch (error) of handleLidarRequest (index.js:251-267)
LidarFail ==
    /\ pxPc = "lidar"
    /\ Failed(pxReply)
    /\ pxResp' = JsonResponse(500, ErrorBody("LiDAR WMS request failed", "fetch failed"))
    /\ pxPc' = "done"
    /\ UNCHANGED <<pxMethod, pxParams, pxReply, pxRoute, pxUpstream, pxCalls, pxRegion, swVars>>

NextProxy ==
    \/ Preflight
    \/ MissingService
    \/ InvalidService
    \/ ForwardNgd
    \/ ForwardLidar
    \/ NgdReply
    \/ NgdFail
    \/ LidarReply
    \/ LidarFail

(***************************************************************************)
(* The service worker's next-state relation.                               *)
(***************************************************************************)
HandlerStep(i) ==
    \/ Open(i)
    \/ MatchStep(i)
    \/ ShellStore(i)
    \/ ShellFallbackOpen(i)
    \/ ShellFallbackMatch(i)
    \/ PutLand(i)

NetworkStep(i) ==
    \/ \E r \in NetResponses : NetResolve(i, r)
    \/ NetReject(i)

NextSW ==
    \/ InstallOpen
    \/ InstallAddAll
    \/ ActivateKeys
    \/ \E k \in StoreNames : ActivateDelete(k)
    \/ ActivateDone
    \/ \E i \in Handlers, v \in Versions, req \in Requests : StartFetch(i, v, req)
    \/ \E i \in Handlers : HandlerStep(i)
    \/ \E i \in Handlers : NetworkStep(i)


InitSWOff ==
    /\ cacheKeys = {}
    /\ curLeft = 0
    /\ oldLeft = 0
    /\ InitStores

vars == <<swVars, pxVars>>

Init == InitSW /\ InitProxyOff

Spec == Init /\ [][NextSW]_vars

InitUpgrade == InitLifecycle /\ InitProxyOff

SpecLifecycle == InitUpgrade /\ [][NextSW]_vars

\* the proxy, over the replies of the upstream
InitProxy ==
    /\ InitSWOff
    /\ InitPx
    /\ pxParams \in SeqsUpTo(RewritePairs, MaxParams)
    /\ pxReply \in Replies

SpecProxy == InitProxy /\ [][NextProxy]_vars

\* the proxy, over the requests
InitClassify ==
    /\ InitSWOff
    /\ InitPx
    /\ pxParams \in SeqsUpTo(ClassifyPairs, MaxParams)
    /\ pxReply \in FewReplies

SpecClassify == InitClassify /\ [][NextProxy]_vars

\* the proxy, over the bounding boxes
InitRegion ==
    /\ InitSWOff
    /\ InitPx
    /\ pxParams \in
           {<<<<k, b>>, <<"SERVICE", "WMS">>>> :
               k \in {"BBOX", "bbox"}, b \in DOMAIN BBoxCoords \cup {"b_words", ""}}
           \cup SeqsUpTo(RewritePairs, 1)
    /\ pxReply \in FewReplies

SpecRegion == InitRegion /\ [][NextProxy]_vars

\* the event loop runs every handler step that is ready; nothing is assumed
\* of the network
SpecLocalFair ==
    Init /\ [][NextSW]_vars /\ \A i \in Handlers : WF_vars(HandlerStep(i))

\* and every network fetch settles
SpecFair ==
    /\ Init /\ [][NextSW]_vars
    /\ \A i \in Handlers : WF_vars(HandlerStep(i)) /\ WF_vars(NetworkStep(i))

(***************************************************************************)
(* Properties of the service worker.                                       *)
(***************************************************************************)
Started(i) == hs[i].pc # "idle"
Branch(i) == IF Started(i) THEN Strategy(hs[i].req) ELSE "idle"
OldNames == {APP_CACHE(OLD_VERSION), RUNTIME_CACHE(OLD_VERSION)}

\* C1: once the activate handler has completed, every store that
\* caches.keys() listed under a name other than the two current ones has been
\* deleted (and exists again only if a handler of the superseded worker
\* opened it meanwhile), and a listed store with a current name is still the
\* same store.
ActivationCleanup ==
    activatePc = "done" =>
        \A k \in keys :
            IF k \in CurrentNames
            THEN k \in cacheKeys /\ gen[k] = 0
            ELSE gen[k] > 0 /\ (k \in cacheKeys => k \in lateOpened)

\* the example of the specification: from all five stores, the two current
\* ones are what is left
ActivationCleanupWitness ==
    /\ activatePc = "done"
    /\ keys = StoreNames
    /\ cacheKeys = CurrentNames

\* C2: in every state after the activation of the current version has
\* completed, whatever handlers are still running, the named stores are at
\* most two, and they are the current app store and the current runtime store.
AtMostTwoStores ==
    activatePc = "done" =>
        cacheKeys \subseteq CurrentNames /\ Cardinality(cacheKeys) <= 2

\* what the code does keep: after the activation has completed, every store
\* other than the two current ones is a store of the superseded version that
\* one of its fetch handlers opened after the activate handler had read
\* caches.keys().
AtMostTwoStoresButLateOpened ==
    activatePc = "done" =>
        /\ (cacheKeys \ CurrentNames) \subseteq lateOpened
        /\ lateOpened \subseteq OldNames
        /\ (lateOpened = {} => Cardinality(cacheKeys) <= 2)

AtMostTwoStoresWitness ==
    /\ activatePc = "done"
    /\ \E k \in OldNames : k \in cacheKeys /\ k \in keys /\ gen[k] > 0
    /\ RUNTIME_CACHE(VERSION) \in cacheKeys

\* C3: a tile request handled by stale-while-revalidate whose store holds an
\* entry is answered although the network fetch may never settle.
TileWithEntry(i) ==
    /\ Branch(i) = "tile"
    /\ hs[i].pc = "matching"
    /\ Match(hs[i].c, hs[i].req) # NoEntry

StaleNotBlocked ==
    \A i \in Handlers : TileWithEntry(i) ~> (hs[i].out.kind = "response")

StaleNotBlockedWitness ==
    \E i \in Handlers :
        /\ Branch(i) = "tile"
        /\ hs[i].hit # NoEntry
        /\ hs[i].net = "pending"
        /\ hs[i].out = Resolved(hs[i].hit)

\* C4: when the network fetch of a tile request succeeds with an ok response,
\* the write of that response is issued, whether the handler answered with
\* the stored copy or not, and the runtime store's entry for the request
\* eventually is that response.
FetchedOk(i) ==
    Branch(i) = "tile" /\ hs[i].net \in OkResponses /\ hs[i].put \in {"none", "pending"}

AppEntry(i) ==
    IF APP_CACHE(hs[i].ver) \in cacheKeys
    THEN content[APP_CACHE(hs[i].ver)][hs[i].req] ELSE NoEntry

NetworkFirstStep(i) ==
    /\ (hs[i].pc = "storing" /\ hs'[i].pc = "done") =>
          /\ hs'[i].out = Resolved(hs[i].net)
          /\ hs'[i].put = "pending"
          /\ hs'[i].c.name = APP_CACHE(hs[i].ver)
    /\ (Branch(i) = "shell" /\ hs[i].put = "pending" /\ hs'[i].put # "pending") =>
          content'[APP_CACHE(hs[i].ver)][hs[i].req] = hs[i].net
    /\ (hs[i].pc = "fallback_match" /\ hs'[i].pc = "done") =>
          hs'[i].out = IF AppEntry(i) # NoEntry THEN Resolved(AppEntry(i))
                       ELSE ErrorResponse

NetworkFirst == [][\A i \in Handlers : NetworkFirstStep(i)]_vars

\* one shell request answered from the network while the store held another
\* copy, one answered with the stored copy, one with the error response
NetworkFirstWitness ==
    /\ \E i \in Handlers :
          /\ Branch(i) = "shell" /\ hs[i].net = "failed"
          /\ hs[i].hit # NoEntry /\ hs[i].out = Resolved(hs[i].hit)
    /\ \E i \in Handlers :
          /\ Branch(i) = "shell" /\ hs[i].net \in NetResponses
          /\ hs[i].put = "landed" /\ hs[i].out = Resolved(hs[i].net)

\* C6 as stated: a request to the tile origin is handled by
\* stale-while-revalidate, opens only the runtime store and is never an entry
\* of the app store.
TileOriginDispatch ==
    /\ \A i \in Handlers :
          (Started(i) /\ IsTileHost(hs[i].req)) =>
              /\ Strategy(hs[i].req) = "tile"
              /\ hs[i].c.name # APP_CACHE(hs[i].ver)
    /\ \A q \in Requests :
          IsTileHost(q) => content[APP_CACHE(VERSION)][q] = NoEntry

\* C7: for every intercepted request under each of the three strategies, the
\* promise handed to respondWith, once settled, holds a response (possibly an
\* error response): it is neither rejected nor resolved with no response.
AlwaysAResponse ==
    \A i \in Handlers :
        (Branch(i) \in {"shell", "static", "tile"} /\ hs[i].pc = "done") =>
            hs[i].out.kind \in {"response", "error_response"}

(***************************************************************************)
(* Properties of the proxy.                                                *)
(***************************************************************************)
\* the strings of a JSON error body
ObjText(obj) ==
    <<obj.error>>
    \o (IF "message" \in DOMAIN obj THEN <<obj.message>> ELSE <<>>)
    \o (IF "usage" \in DOMAIN obj THEN obj.usage ELSE <<>>)
    \o (IF "validTypes" \in DOMAIN obj THEN obj.validTypes ELSE <<>>)

ResponseText(resp) ==
    CASE resp.body.kind = "text" -> resp.body.text
      [] resp.body.kind = "json" -> ObjText(resp.body.obj)
      [] OTHER -> <<>>

Contains(text, token) == \E k \in 1..Len(text) : text[k] = token

\* C8 as stated: no response body returned by the proxy contains the
\* credential, whatever the upstream replied.
CredentialNeverReturned ==
    pxPc = "done" => ~Contains(ResponseText(pxResp), Credential)

\* C9: the classes of the decision procedure; a request the code answers
\* with "Missing service parameter" or "Invalid service type" is invalid.
ClassOf(route) == IF route \in {"missing", "invalid"} THEN "invalid" ELSE route

KeysOf(params) == {params[k][1] : k \in 1..Len(params)}

\* the value of the first service parameter
FirstService(params) ==
    params[CHOOSE k \in 1..Len(params) :
               /\ params[k][1] = "service"
               /\ \A j \in 1..(k - 1) : params[j][1] # "service"][2]

\* the three steps as stated
ProcedureAsStated(params) ==
    IF /\ KeysOf(params) \cap {"BBOX", "bbox"} # {}
       /\ KeysOf(params) \cap {"SERVICE", "service"} # {}
    THEN "lidar"
    ELSE IF "service" \in KeysOf(params)
         THEN IF FirstService(params) \in {"tiles", "features"}
              THEN FirstService(params)
              ELSE "invalid"
         ELSE "invalid"

\* C9 as stated: the class of every request is the one the three steps give.
ClassificationAsStated ==
    pxRoute # "none" => ClassOf(pxRoute) = ProcedureAsStated(pxParams)

\* the three steps with step (2) mapping lidar to lidar
ProcedureAmended(params) ==
    IF /\ KeysOf(params) \cap {"BBOX", "bbox"} # {}
       /\ KeysOf(params) \cap {"SERVICE", "service"} # {}
    THEN "lidar"
    ELSE IF "service" \in KeysOf(params)
         THEN IF FirstService(params) \in {"tiles", "features", "lidar"}
              THEN FirstService(params)
              ELSE "invalid"
         ELSE "invalid"

\* C9 as amended: the class of every request is the one the three steps
\* give, step (2) giving lidar for a service parameter of lidar without a
\* bounding box.
ClassificationAmended ==
    pxRoute # "none" => ClassOf(pxRoute) = ProcedureAmended(pxParams)

ClassificationWitness ==
    /\ pxRoute = "lidar"
    /\ KeysOf(pxParams) \cap {"BBOX", "bbox"} = {}
    /\ pxCalls = 1

\* C10: a request that is not OPTIONS, with no service and no BBOX/bbox
\* parameter, has been answered.
AnsweredWithoutService ==
    /\ pxPc = "done"
    /\ pxMethod # "OPTIONS"
    /\ KeysOf(pxParams) \cap {"service", "BBOX", "bbox"} = {}

\* C10 as stated: the answer is a 400 whose JSON body lists exactly tiles,
\* features, lidar as the valid types, and no upstream request was made.
MissingServiceListsTypes ==
    AnsweredWithoutService =>
        /\ pxResp.status = 400
        /\ pxResp.body.kind = "json"
        /\ "validTypes" \in DOMAIN pxResp.body.obj
        /\ pxResp.body.obj.validTypes = <<"tiles", "features", "lidar">>
        /\ pxCalls = 0

\* the service values a usage text names: those that follow "?service="
UsageNames(usage) ==
    {usage[k + 1] : k \in {j \in 1..(Len(usage) - 1) : usage[j] = "?service="}}

\* C10 as amended: the answer is a 400 whose JSON body has the error
\* "Missing service parameter" and a usage text naming ?service=tiles,
\* ?service=features and ?service=lidar, and no validTypes member; no
\* upstream request was made.
MissingServiceGivesUsage ==
    AnsweredWithoutService =>
        /\ pxResp.status = 400
        /\ pxResp.ctype = "application/json"
        /\ pxResp.body.kind = "json"
        /\ pxResp.body.obj.error = "Missing service parameter"
        /\ DOMAIN pxResp.body.obj = {"error", "usage"}
        /\ UsageNames(pxResp.body.obj.usage) = {"tiles", "features", "lidar"}
        /\ pxCalls = 0
        /\ pxUpstream = NoUrl

MissingServiceWitness ==
    /\ AnsweredWithoutService
    /\ "SERVICE" \in KeysOf(pxParams)
    /\ pxResp.status = 400

\* a request that was forwarded to an upstream has been answered
Forwarded == pxPc = "done" /\ pxRoute \in {"tiles", "features", "lidar"}

\* the upstream's reply makes apiResponse.json() or data.sources throw
BodyThrows ==
    /\ pxRoute \in {"tiles", "features"}
    /\ ~Failed(pxReply)
    /\ IsJson(pxReply.ctype)
    /\ pxReply.body.kind \in {"text", "json_null"}

\* a 500 with a JSON error body carrying the message, and the CORS header
IsError500(resp) ==
    /\ resp.status = 500
    /\ resp.ctype = "application/json"
    /\ resp.cors = "*"
    /\ resp.body.kind = "json"
    /\ DOMAIN resp.body.obj = {"error", "message"}

NoFailureEscapes ==
    /\ pxPc = "done" => pxResp # NoResponse /\ pxResp.status \in {200, 400, 404, 500}
    /\ pxPc = "start" =>
           \/ pxMethod = "OPTIONS"
           \/ Classify(pxParams) \in {"missing", "invalid", "tiles", "features", "lidar"}
    /\ pxPc \in {"start", "ngd", "lidar", "done"}
    /\ (Forwarded /\ (Failed(pxReply) \/ BodyThrows)) => IsError500(pxResp)

NoFailureEscapesWitness ==
    /\ Forwarded
    /\ BodyThrows
    /\ pxReply.body.kind = "json_null"
    /\ IsError500(pxResp)

\* the tokens that hold the characters key=
KeyTokens == {"?key=", "&key=", ";key="}

\* the text holds ?key=V or &key=V with V not empty
HasKeyParam(text) ==
    \E k \in 1..(Len(text) - 1) :
        text[k] \in {"?key=", "&key="} /\ text[k + 1] \notin Stoppers

\* C13: for an upstream reply with a JSON content type whose body holds
\* ?key=V or &key=V anywhere, V not empty, the body returned by the proxy
\* has no occurrence of key=.
BlanketRedaction ==
    (/\ pxPc = "done"
     /\ pxRoute \in {"tiles", "features"}
     /\ ~Failed(pxReply)
     /\ IsJson(pxReply.ctype)
     /\ pxReply.body.kind = "json"
     /\ HasKeyParam(Stringify(pxReply.body.doc))) =>
        /\ pxResp.body.kind = "text"
        /\ \A k \in 1..Len(pxResp.body.text) : pxResp.body.text[k] \notin KeyTokens

\* a tiles request whose upstream JSON body has a url, a string that is not
\* empty, on the source of the request's collection, has been answered
StyleWithUrl ==
    /\ pxPc = "done"
    /\ pxRoute = "tiles"
    /\ ~Failed(pxReply)
    /\ IsJson(pxReply.ctype)
    /\ pxReply.body.kind = "json"
    /\ IsSome(pxReply.body.doc.sources)
    /\ CollectionOf(pxParams) \in DOMAIN Val(pxReply.body.doc.sources)
    /\ IsSome(Val(pxReply.body.doc.sources)[CollectionOf(pxParams)].url)
    /\ Val(Val(pxReply.body.doc.sources)[CollectionOf(pxParams)].url) # <<>>

\* the member of sources for collection c as the rewritten body has to hold it
RewrittenSource(c) ==
    StrLit(<<c>>) \o <<":", "{", "tiles:[">> \o StrLit(TileTemplate(c)) \o <<"]", "}">>

HoldsAt(text, part, k) ==
    /\ k + Len(part) - 1 <= Len(text)
    /\ SubSeq(text, k, k + Len(part) - 1) = part

\* C14: for a tiles request with collection C whose upstream JSON body has
\* sources[C].url, the returned body holds sources[C] without url and with
\* tiles a one-element array of the proxy template for C, and holds no
\* top-level center or zoom.
StyleRewrite ==
    StyleWithUrl =>
        /\ pxResp.status = pxReply.status
        /\ pxResp.body.kind = "text"
        /\ \E k \in 1..Len(pxResp.body.text) :
               HoldsAt(pxResp.body.text, RewrittenSource(CollectionOf(pxParams)), k)
        /\ ~Contains(pxResp.body.text, "center:")
        /\ ~Contains(pxResp.body.text, "zoom:")

StyleRewriteWitness ==
    /\ StyleWithUrl
    /\ CollectionOf(pxParams) = "c1"
    /\ IsSome(pxReply.body.doc.center)
    /\ Contains(pxResp.body.text, "tiles:[")

\* the region the rule of the spec gives each bounding box: the centre, read
\* as Web Mercator metres when a coordinate of it is beyond 20000 and as
\* degrees otherwise, then scotland, wales, northern_ireland in that order
RegionByRule ==
    [ b_london |-> "england",
     b_scotland |-> "scotland",
     b_scotland_east |-> "scotland",
     b_scotland_edge |-> "scotland",
     b_wales |-> "wales",
     b_wales_west |-> "wales",
     b_wales_lon_edge |-> "england",
     b_wales_lat_top |-> "england",
     b_wales_lat_bottom |-> "england",
     b_ni |-> "northern_ireland",
     b_ni_lat55 |-> "northern_ireland",
     b_ni_lat_bottom |-> "england",
     b_ni_lon_edge |-> "england",
     b_irish_sea |-> "england",
     b_short |-> "england",
     b_long |-> "england",
     b_nan |-> "england",
     b_nan_lon |-> "scotland",
     b_nan_lat |-> "england",
     m_london |-> "england",
     m_scotland_ni |-> "scotland",
     m_ni |-> "northern_ireland",
     m_wales |-> "wales",
     m_scotland_lat_only |-> "scotland",
     m_england_north |-> "england",
     m_near_origin |-> "scotland"]

\* the bounding box handleLidarRequest read
BBoxOf(params) ==
    IF Truthy(Get(params, "BBOX")) THEN Get(params, "BBOX") ELSE Get(params, "bbox")

\* C15: detectRegion returns exactly one region for every bounding-box
\* string: england for a string that does not split into four values, and
\* otherwise, for the centre (lon, lat), scotland if lat > 55.3 whatever lon
\* is, else wales if lon < -2.5 and 51.3 < lat < 53.5, else northern_ireland
\* if lon < -5.5 and 54.0 < lat < 55.5, else england.
RegionPrecedence ==
    (pxRoute = "lidar" /\ Truthy(BBoxOf(pxParams))) =>
        /\ pxRegion \in Regions
        /\ BBoxOf(pxParams) \in DOMAIN RegionByRule =>
               pxRegion = RegionByRule[BBoxOf(pxParams)]
        /\ Len(ParseBBox(BBoxOf(pxParams))) # 4 => pxRegion = "england"

RegionPrecedenceWitness ==
    /\ pxRoute = "lidar"
    /\ BBoxOf(pxParams) = "m_scotland_ni"
    /\ pxRegion = "scotland"
    /\ pxPc = "done"

\* a service parameter, the key in either case, whose value is lidar
NotMarker(p) == ~(ToLower(p[1]) = "service" /\ ToLower(p[2]) = "lidar")
NotLayers(p) == p[1] # "LAYERS"
HasService(params) == \E k \in 1..Len(params) : params[k][1] \in {"SERVICE", "service"}

\* C16: for every request routed to the LiDAR path the outbound WMS query
\* holds the inbound parameters in order but the service parameters (either
\* case) whose value is lidar; holds a SERVICE or service parameter,
\* SERVICE=WMS being added exactly when the copy left none; and holds exactly
\* one LAYERS parameter, with the layer configured for the region of the
\* bounding box (england without one), whatever LAYERS the caller sent.
LidarOutbound ==
    pxRoute = "lidar" =>
        LET out == pxUpstream.query
            kept == SelectSeq(pxParams, NotMarker)
        IN /\ SelectSeq(out, NotLayers) =
                  SelectSeq(kept, NotLayers)
                  \o (IF HasService(kept) THEN <<>> ELSE <<<<"SERVICE", "WMS">>>>)
           /\ HasService(out)
           /\ Cardinality({k \in 1..Len(out) : out[k][1] = "LAYERS"}) = 1
           /\ \A k \in 1..Len(out) :
                  out[k][1] = "LAYERS" => out[k][2] = getWMSConfig(pxRegion).layers
           /\ pxUpstream.api = getWMSConfig(pxRegion).url
           /\ pxRegion \in Regions
           /\ ~Truthy(BBoxOf(pxParams)) => pxRegion = "england"

LidarOutboundWitness ==
    /\ pxRoute = "lidar"
    /\ pxPc = "done"
    /\ \E k \in 1..Len(pxParams) : pxParams[k] = <<"SERVICE", "lidar">>
    /\ \E k \in 1..Len(pxParams) : pxParams[k] = <<"LAYERS", "mine">>
    /\ \E k \in 1..Len(pxUpstream.query) : pxUpstream.query[k] = <<"SERVICE", "WMS">>

(***************************************************************************)
(* Properties of the cache strategies, continued.                          *)
(***************************************************************************)
StaticRequests == {q \in Requests : Strategy(q) = "static"}

\* the steps of a static-asset handler: an entry of the app store is returned
\* without a fetch; without one the network response is returned, and put
\* only if it is ok
CacheFirstStep(i) ==
    Strategy(hs[i].req) = "static" =>
        /\ (hs[i].pc = "matching" /\ hs'[i].pc # "matching") =>
              IF AppEntry(i) # NoEntry
              THEN /\ hs'[i].out = Resolved(AppEntry(i))
                   /\ hs'[i].pc = "done"
                   /\ hs'[i].net = "none"
                   /\ hs'[i].put = "none"
              ELSE /\ hs'[i].out = Pending
                   /\ hs'[i].net = "pending"
        /\ (hs[i].net = "pending" /\ hs'[i].net \in NetResponses) =>
              /\ hs'[i].out = Resolved(hs'[i].net)
              /\ hs'[i].put = "pending" <=> Ok(hs'[i].net)
        /\ hs[i].hit # NoEntry => hs'[i].net = "none" /\ hs'[i].put = "none"

\* C17 as stated: a static-asset request is answered from the app store
\* without a fetch when the store holds an entry, and otherwise with the
\* network response, stored only if ok; and an entry of the app store for an
\* asset, once there, is never replaced.
CacheFirstNeverReplaced ==
    [][/\ \A i \in Handlers : CacheFirstStep(i)
       /\ \A q \in StaticRequests :
              content[APP_CACHE(VERSION)][q] # NoEntry =>
                  content'[APP_CACHE(VERSION)][q] = content[APP_CACHE(VERSION)][q]]_vars

\* C17 as amended: the same, but an entry for an asset is replaced only by
\* the put of a request for that asset that had found no entry when it read
\* the store.
CacheFirstReplacedByOverlap ==
    [][/\ \A i \in Handlers : CacheFirstStep(i)
       /\ \A q \in StaticRequests :
              (/\ content[APP_CACHE(VERSION)][q] # NoEntry
               /\ content'[APP_CACHE(VERSION)][q] # content[APP_CACHE(VERSION)][q]) =>
                  \E i \in Handlers :
                      /\ hs[i].req = q
                      /\ hs[i].hit = NoEntry
                      /\ Ok(hs[i].net)
                      /\ hs[i].put = "pending" /\ hs'[i].put = "landed"
                      /\ content'[APP_CACHE(VERSION)][q] = hs[i].net]_vars

CacheFirstReplacedByOverlapWitness ==
    \E i, j \in Handlers :
        /\ i # j
        /\ hs[i].req = hs[j].req
        /\ Strategy(hs[i].req) = "static"
        /\ hs[i].hit = NoEntry /\ hs[j].hit = NoEntry
        /\ hs[i].put = "landed" /\ hs[j].put = "landed"
        /\ hs[i].net # hs[j].net
        /\ content[APP_CACHE(VERSION)][hs[i].req] = hs[j].net

\* a navigation to / after the install has completed, before any navigation
\* fetch has succeeded, whose network fetch failed, has been answered
OfflineRoot(i) ==
    /\ installPc = "installed"
    /\ hs[i].req = RootUrl
    /\ hs[i].pc = "done"
    /\ hs[i].net = "failed"
    /\ \A j \in Handlers : ~(Branch(j) = "shell" /\ hs[j].net \in NetResponses)

\* C18: such a navigation is answered with the precached root document from
\* the app store, not with the generic error response.
OfflineShellAfterInstall ==
    \A i \in Handlers :
        OfflineRoot(i) =>
            /\ content[APP_CACHE(VERSION)][IndexUrl] # NoEntry
            /\ hs[i].out = Resolved(content[APP_CACHE(VERSION)][IndexUrl])

\* what the code does for the document under the URL the install stored
OfflineIndexServed ==
    \A i \in Handlers :
        (/\ installPc = "installed"
         /\ hs[i].req = IndexUrl
         /\ hs[i].pc = "done"
         /\ hs[i].net = "failed") => hs[i].out.kind = "response"

\* the steps of the handlers as far as what they put is concerned
ShellWriteStep(i) ==
    /\ (Branch(i) = "shell" /\ hs[i].pc = "storing" /\ hs'[i].pc = "done") =>
          /\ hs[i].net \in NetResponses
          /\ hs'[i].out = Resolved(hs[i].net)
          /\ hs'[i].put = "pending"
    /\ (Branch(i) = "shell" /\ hs[i].put = "pending" /\ hs'[i].put = "landed") =>
          content'[APP_CACHE(hs[i].ver)][hs[i].req] = hs[i].net
    /\ (Branch(i) = "shell" /\ hs'[i].out.kind = "response"
          /\ hs'[i].out # Resolved(hs'[i].net)) =>
          /\ hs'[i].net = "failed"
          /\ hs'[i].out = Resolved(hs'[i].hit)
    /\ (Branch(i) \in {"static", "tile"} /\ hs[i].net = "pending"
          /\ hs'[i].net \in NetResponses) =>
          hs'[i].put = "pending" <=> Ok(hs'[i].net)

\* C19: in the network-first strategy every response the fetch resolves
\* with, ok or not, is returned and put into the app store, replacing the
\* entry for the request; the stored copy is served only when the fetch
\* rejected; the static-asset and tile strategies put only ok responses.
ShellWritesIgnoreStatus == [][\A i \in Handlers : ShellWriteStep(i)]_vars

ShellWritesIgnoreStatusWitness ==
    \E i \in Handlers :
        /\ hs[i].req = IndexUrl
        /\ hs[i].net = "e404"
        /\ hs[i].out = Resolved("e404")
        /\ hs[i].put = "landed"
        /\ content[APP_CACHE(VERSION)][IndexUrl] = "e404"

\* C20: in the tile strategy, a request for which the runtime store held an
\* entry is answered with the stored copy, never with the fresh response,
\* however early the fetch settles; the outcome of the fetch is returned
\* only when there was no stored copy.
StoredCopyWinsRace ==
    \A i \in Handlers :
        (Branch(i) = "tile" /\ hs[i].pc \in {"fetching", "done"}) =>
            IF hs[i].hit # NoEntry
            THEN hs[i].out = Resolved(hs[i].hit)
            ELSE \/ hs[i].out = Pending /\ hs[i].net = "pending"
                 \/ hs[i].out = Resolved(hs[i].net) /\ hs[i].net \in NetResponses
                 \/ hs[i].out = Undefined /\ hs[i].net = "failed"

StoredCopyWinsRaceWitness ==
    \E i \in Handlers :
        /\ Branch(i) = "tile"
        /\ hs[i].hit # NoEntry
        /\ hs[i].net \in OkResponses
        /\ hs[i].net # hs[i].hit
        /\ hs[i].out = Resolved(hs[i].hit)

====
